---- MODULE Spec2Model ----
(***************************************************************************)
(* Bearer tokens of inth-oauth2: parsing a token-endpoint response into a  *)
(* Bearer<L> (fresh, or inheriting from the previous token on a refresh),  *)
(* the Static and Expiring lifetimes, and the serde round trip of a token. *)
(*                                                                         *)
(* Strings are sequences of one-character strings, so that comparisons of  *)
(* case and emptiness are computed and not assumed.                        *)
(***************************************************************************)
EXTENDS Integers, Sequences, FiniteSets, TLC

VARIABLES
    now,          \* the clock read by UTC::now(), in seconds
    L,            \* the provider's Lifetime type parameter: "Static" or "Expiring"
    json,         \* the response handed to the last parse
    prev,         \* the token the last from_response_inherit inherited from
    result,       \* the Result<Bearer<L>, ParseError> of the last parse
    token,        \* the token the client holds (replaced by a successful parse)
    parsedAt,     \* the clock at the last successful parse
    lastRT,       \* history: refresh_token of the latest successful response carrying one
    original,     \* the Bearer value handed to serialize
    serialized,   \* the serde map written by Serialize
    deserialized, \* the Result of Deserialize
    op            \* the operation that ran last

vars == <<now, L, json, prev, result, token, parsedAt, lastRT,
          original, serialized, deserialized, op>>

----------------------------------------------------------------------------
(* Bounds *)

MaxExpiresIn == 1
MaxTime == 2

----------------------------------------------------------------------------
(* Strings *)

Bearer_ == <<"B", "e", "a", "r", "e", "r">>
bearer_ == <<"b", "e", "a", "r", "e", "r">>
BEARER_ == <<"B", "E", "A", "R", "E", "R">>
bEaReR_ == <<"b", "E", "a", "R", "e", "R">>
MAC_ == <<"M", "A", "C">>
Empty == <<>>
aaaa == <<"a", "a", "a", "a", "a", "a", "a", "a">>
cccc == <<"c", "c", "c", "c", "c", "c", "c", "c">>
bbbb == <<"b", "b", "b", "b", "b", "b", "b", "b">>
dddd == <<"d", "d", "d", "d", "d", "d", "d", "d">>
foo == <<"f", "o", "o">>
bar == <<"b", "a", "r">>
baz == <<"b", "a", "z">>

UpperCase == <<"A", "B", "C", "E", "M", "R">>
LowerCase == <<"a", "b", "c", "e", "m", "r">>

to_ascii_lowercase(c) ==
    IF \E i \in 1..Len(UpperCase) : UpperCase[i] = c
    THEN LowerCase[CHOOSE i \in 1..Len(UpperCase) : UpperCase[i] = c]
    ELSE c

eq_ignore_ascii_case(s, t) ==
    /\ Len(s) = Len(t)
    /\ \A i \in 1..Len(s) : to_ascii_lowercase(s[i]) = to_ascii_lowercase(t[i])

----------------------------------------------------------------------------
(* JSON values and responses *)

Keys == {"token_type", "access_token", "scope", "id_token", "expires_in", "refresh_token"}

Absent == [type |-> "absent", s |-> Empty, n |-> 0]
JString(str) == [type |-> "string", s |-> str, n |-> 0]
JNumber(num) == [type |-> "number", s |-> Empty, n |-> num]
JNull == [type |-> "null", s |-> Empty, n |-> 0]

JObject(tt, at, sc, idt, ei, rt) ==
    [kind |-> "object",
     fields |-> [k \in Keys |->
        CASE k = "token_type" -> tt
          [] k = "access_token" -> at
          [] k = "scope" -> sc
          [] k = "id_token" -> idt
          [] k = "expires_in" -> ei
          [] k = "refresh_token" -> rt]]

JArray == [kind |-> "array", fields |-> [k \in Keys |-> Absent]]

----------------------------------------------------------------------------
(* Results and errors *)

NoError == [kind |-> "none", field |-> "", expected |-> ""]
MissingField(f) == [kind |-> "MissingField", field |-> f, expected |-> ""]
WrongType(f) == [kind |-> "WrongType", field |-> f, expected |-> "string"]
WrongTypeNumber(f) == [kind |-> "WrongType", field |-> f, expected |-> "number"]
ExpectedFieldValue(f, e) == [kind |-> "ExpectedFieldValue", field |-> f, expected |-> e]
MalformedResponse == [kind |-> "MalformedResponse", field |-> "", expected |-> ""]

None == [some |-> FALSE, v |-> Empty]
Some(v) == [some |-> TRUE, v |-> v]

(* Lifetimes: Static carries no data, Expiring an instant and a refresh token. *)
Static == [kind |-> "Static", expires |-> 0, refresh_token |-> Empty]
Expiring(e, rt) == [kind |-> "Expiring", expires |-> e, refresh_token |-> rt]

Bearer(at, sc, lt, idt) ==
    [access_token |-> at, scope |-> sc, lifetime |-> lt, id_token |-> idt]

NoBearer == Bearer(Empty, None, Static, None)
NoToken == [some |-> FALSE, v |-> NoBearer]
NoResponse == [kind |-> "none", fields |-> [k \in Keys |-> Absent]]

(* Result<T, ParseError>; the value of an Err is a placeholder of T's shape. *)
Ok(v) == [ok |-> TRUE, value |-> v, err |-> NoError]
Err(e) == [ok |-> FALSE, value |-> Empty, err |-> e]
ErrL(e) == [ok |-> FALSE, value |-> Static, err |-> e]
ErrB(e) == [ok |-> FALSE, value |-> NoBearer, err |-> e]
ErrN(e) == [ok |-> FALSE, value |-> 0, err |-> e]

----------------------------------------------------------------------------
(* JsonHelper: typed access to the fields of a response *)

as_object(j) == j.kind = "object"

get_string(obj, key) ==
    LET v == obj.fields[key] IN
    CASE v.type = "absent" -> Err(MissingField(key))
      [] v.type = "string" -> Ok(v.s)
      [] OTHER -> Err(WrongType(key))

get_string_option(obj, key) ==
    LET v == obj.fields[key] IN
    IF v.type = "string" THEN Some(v.s) ELSE None

get_i64(obj, key) ==
    LET v == obj.fields[key] IN
    CASE v.type = "absent" -> ErrN(MissingField(key))
      [] v.type = "number" -> Ok(v.n)
      [] OTHER -> ErrN(WrongTypeNumber(key))

----------------------------------------------------------------------------
(* Lifetimes *)

StaticFromResponse(j) == Ok(Static)

StaticFromResponseInherit(j, p) == Ok(Static)

ExpiringFromResponse(j, t) ==
    IF ~as_object(j) THEN ErrL(MalformedResponse)
    ELSE LET expires_in == get_i64(j, "expires_in")
             refresh_token == get_string(j, "refresh_token") IN
         IF ~expires_in.ok THEN ErrL(expires_in.err)
         ELSE IF ~refresh_token.ok THEN ErrL(refresh_token.err)
         ELSE Ok(Expiring(t + expires_in.value, refresh_token.value))

ExpiringFromResponseInherit(j, p, t) ==
    IF ~as_object(j) THEN ErrL(MalformedResponse)
    ELSE LET expires_in == get_i64(j, "expires_in")
             refresh_token == get_string_option(j, "refresh_token") IN
         IF ~expires_in.ok THEN ErrL(expires_in.err)
         ELSE Ok(Expiring(t + expires_in.value,
                          IF refresh_token.some THEN refresh_token.v
                          ELSE p.refresh_token))

(* Variant: the token expires only after expires_at. *)
expired_Strict(l, t) ==
    IF l.kind = "Static" THEN FALSE ELSE t > l.expires

expired(l, t) ==
    IF l.kind = "Static" THEN FALSE ELSE t >= l.expires

(* FromResponse for the Lifetime type parameter l of Bearer<L> *)
LifetimeFromResponse(l, j, t) ==
    IF l = "Static" THEN StaticFromResponse(j) ELSE ExpiringFromResponse(j, t)

LifetimeFromResponseInherit(l, j, p, t) ==
    IF l = "Static" THEN StaticFromResponseInherit(j, p)
    ELSE ExpiringFromResponseInherit(j, p, t)

----------------------------------------------------------------------------
(* Bearer *)

(* Variant: access_token is read before token_type is checked. *)
from_response_and_lifetime_AccessTokenFirst(j, lifetime) ==
    IF ~as_object(j) THEN ErrB(MalformedResponse)
    ELSE LET access_token == get_string(j, "access_token")
             token_type == get_string(j, "token_type")
             scope == get_string_option(j, "scope")
             id_token == get_string_option(j, "id_token") IN
         IF ~access_token.ok THEN ErrB(access_token.err)
         ELSE IF ~token_type.ok THEN ErrB(token_type.err)
         ELSE IF token_type.value # Bearer_ /\ token_type.value # bearer_
         THEN ErrB(ExpectedFieldValue("token_type", "Bearer"))
         ELSE Ok(Bearer(access_token.value, scope, lifetime, id_token))

(* Variant: access_token is read as an optional string, defaulting to "". *)
from_response_and_lifetime_OptionalAccessToken(j, lifetime) ==
    IF ~as_object(j) THEN ErrB(MalformedResponse)
    ELSE LET token_type == get_string(j, "token_type") IN
         IF ~token_type.ok THEN ErrB(token_type.err)
         ELSE IF token_type.value # Bearer_ /\ token_type.value # bearer_
         THEN ErrB(ExpectedFieldValue("token_type", "Bearer"))
         ELSE LET access_token == get_string_option(j, "access_token")
                  scope == get_string_option(j, "scope")
                  id_token == get_string_option(j, "id_token") IN
              Ok(Bearer(access_token.v, scope, lifetime, id_token))

from_response_and_lifetime(j, lifetime) ==
    IF ~as_object(j) THEN ErrB(MalformedResponse)
    ELSE LET token_type == get_string(j, "token_type") IN
         IF ~token_type.ok THEN ErrB(token_type.err)
         ELSE IF token_type.value # Bearer_ /\ token_type.value # bearer_
         THEN ErrB(ExpectedFieldValue("token_type", "Bearer"))
         ELSE LET access_token == get_string(j, "access_token")
                  scope == get_string_option(j, "scope")
                  id_token == get_string_option(j, "id_token") IN
              IF ~access_token.ok THEN ErrB(access_token.err)
              ELSE Ok(Bearer(access_token.value, scope, lifetime, id_token))

from_response(l, j, t) ==
    LET lifetime == LifetimeFromResponse(l, j, t) IN
    IF ~lifetime.ok THEN ErrB(lifetime.err)
    ELSE from_response_and_lifetime(j, lifetime.value)

(* Variant: the lifetime is parsed afresh, without the previous one. *)
from_response_inherit_Fresh(l, j, p, t) ==
    LET lifetime == LifetimeFromResponse(l, j, t) IN
    IF ~lifetime.ok THEN ErrB(lifetime.err)
    ELSE from_response_and_lifetime(j, lifetime.value)

(* Variant: scope and id_token absent from the response are taken from the
   previous token. *)
from_response_inherit_KeepsScope(l, j, p, t) ==
    LET lifetime == LifetimeFromResponseInherit(l, j, p.lifetime, t)
        r == IF ~lifetime.ok THEN ErrB(lifetime.err)
             ELSE from_response_and_lifetime(j, lifetime.value) IN
    IF ~r.ok THEN r
    ELSE Ok(Bearer(r.value.access_token,
                   IF r.value.scope.some THEN r.value.scope ELSE p.scope,
                   r.value.lifetime,
                   IF r.value.id_token.some THEN r.value.id_token ELSE p.id_token))

(* Variant: the previous token's refresh_token is kept even when the response
   carries a new one. *)
from_response_inherit_KeepsOldRefreshToken(l, j, p, t) ==
    LET lifetime == LifetimeFromResponseInherit(l, j, p.lifetime, t) IN
    IF ~lifetime.ok THEN ErrB(lifetime.err)
    ELSE from_response_and_lifetime(j,
            IF l = "Static" THEN lifetime.value
            ELSE Expiring(lifetime.value.expires, p.lifetime.refresh_token))

from_response_inherit(l, j, p, t) ==
    LET lifetime == LifetimeFromResponseInherit(l, j, p.lifetime, t) IN
    IF ~lifetime.ok THEN ErrB(lifetime.err)
    ELSE from_response_and_lifetime(j, lifetime.value)

----------------------------------------------------------------------------
(* Serde: Serialize / Deserialize for Bearer<L> *)

SString(str) == [type |-> "string", s |-> str, n |-> 0]
SUnit == [type |-> "unit", s |-> Empty, n |-> 0]
SMap(e, rt) == [type |-> "map", s |-> rt, n |-> e]

(* Option<String>: visit_none writes a unit (JSON null), visit_some the string. *)
SerializeOption(o) == IF o.some THEN SString(o.v) ELSE SUnit

SerializeLifetime(l) ==
    IF l.kind = "Static" THEN SUnit ELSE SMap(l.expires, l.refresh_token)

DeserializeLifetime(l, v) ==
    IF l = "Static"
    THEN IF v.type = "unit" THEN Ok(Static) ELSE ErrL(WrongType("lifetime"))
    ELSE IF v.type = "map" THEN Ok(Expiring(v.n, v.s)) ELSE ErrL(WrongType("lifetime"))

Entry(k, v) == [key |-> k, value |-> v]

serialize(b) ==
    << Entry("access_token", SString(b.access_token)),
       Entry("scope", SerializeOption(b.scope)),
       Entry("lifetime", SerializeLifetime(b.lifetime)),
       Entry("id_token", SerializeOption(b.id_token)) >>

FIELDS == {"access_token", "scope", "lifetime", "id_token"}

(* FieldVisitor::visit_str *)
visit_str(value) ==
    IF value \in FIELDS THEN Ok(value)
    ELSE [ok |-> FALSE, value |-> "", err |-> [kind |-> "syntax", field |-> value,
          expected |-> "access_token, scope, lifetime or id_token"]]

(* visit_value::<String>: a String is read from a string only. *)
visit_value_String(v) ==
    IF v.type = "string" THEN Ok(v.s) ELSE Err(WrongType("String"))

NoFields == [access_token |-> None, scope |-> None,
             lifetime |-> [some |-> FALSE, v |-> Static], id_token |-> None,
             err |-> NoError]

(* The loop of DeVisitor::visit_map over the entries from index i on. *)
RECURSIVE visit_loop(_, _, _, _)
visit_loop(l, entries, i, acc) ==
    IF i > Len(entries) THEN acc
    ELSE LET key == visit_str(entries[i].key)
             v == entries[i].value IN
         IF ~key.ok THEN [acc EXCEPT !.err = key.err]
         ELSE IF key.value = "lifetime"
         THEN LET r == DeserializeLifetime(l, v) IN
              IF ~r.ok THEN [acc EXCEPT !.err = r.err]
              ELSE visit_loop(l, entries, i + 1,
                              [acc EXCEPT !.lifetime = [some |-> TRUE, v |-> r.value]])
         ELSE LET r == visit_value_String(v) IN
              IF ~r.ok THEN [acc EXCEPT !.err = r.err]
              ELSE visit_loop(l, entries, i + 1,
                              [acc EXCEPT ![key.value] = Some(r.value)])

visit_map(l, entries) ==
    LET acc == visit_loop(l, entries, 1, NoFields) IN
    IF acc.err # NoError THEN ErrB(acc.err)
    ELSE IF ~acc.access_token.some THEN ErrB(MissingField("access_token"))
    ELSE IF ~acc.lifetime.some THEN ErrB(MissingField("lifetime"))
    ELSE Ok(Bearer(acc.access_token.v, acc.scope, acc.lifetime.v, acc.id_token))

deserialize(l, entries) == visit_map(l, entries)

----------------------------------------------------------------------------
(* Input domains *)

Lifetimes == {"Static", "Expiring"}

TokenTypes == {Absent, JString(Bearer_), JString(bearer_), JString(BEARER_),
               JString(bEaReR_), JString(MAC_)}
AccessTokens == {Absent, JNumber(42), JString(Empty), JString(aaaa), JString(cccc)}
Scopes == {Absent, JNull, JString(foo)}
IdTokens == {Absent, JNumber(7), JString(baz)}
ExpiresIns == {Absent, JString(foo)} \cup {JNumber(n) : n \in 0..MaxExpiresIn}
RefreshTokens == {Absent, JString(bbbb), JString(dddd)}

Responses ==
    {JArray} \cup
    {JObject(tt, at, sc, idt, ei, rt) :
        tt \in TokenTypes, at \in AccessTokens, sc \in Scopes, idt \in IdTokens,
        ei \in ExpiresIns, rt \in RefreshTokens}

(* Responses of the first authorization that a client may hold a token from. *)
InitialResponses ==
    {JObject(JString(Bearer_), JString(aaaa), sc, idt, JNumber(MaxExpiresIn), rt) :
        sc \in {Absent, JString(bar)}, idt \in {Absent, JString(bar)},
        rt \in {JString(bbbb), JString(dddd)}}

HeldTokens(l) ==
    {Some(from_response(l, j, 0).value) :
        j \in {i \in InitialResponses : from_response(l, i, 0).ok}}

(* Responses of a refresh chain. *)
RefreshResponses ==
    {JObject(tt, at, Absent, Absent, ei, rt) :
        tt \in {JString(Bearer_), JString(MAC_)},
        at \in {Absent, JString(aaaa), JString(cccc)},
        ei \in {Absent} \cup {JNumber(n) : n \in 0..MaxExpiresIn},
        rt \in RefreshTokens}

Bearers(l) ==
    {Bearer(at, sc, lt, idt) :
        at \in {aaaa, foo}, sc \in {None, Some(bar)}, idt \in {None, Some(baz)},
        lt \in IF l = "Static" THEN {Static}
               ELSE {Expiring(e, rt) : e \in 0..(MaxTime + MaxExpiresIn),
                                       rt \in {bbbb, dddd}}}

----------------------------------------------------------------------------
(* State machine *)

RefreshTokenOf(tok) ==
    IF tok.some /\ tok.v.lifetime.kind = "Expiring"
    THEN Some(tok.v.lifetime.refresh_token) ELSE None

(* A response is on the table and the client holds a token or none. *)
Init ==
    /\ now \in 0..MaxTime
    /\ L \in Lifetimes
    /\ json \in Responses
    /\ token \in {NoToken} \cup HeldTokens(L)
    /\ prev = NoToken
    /\ result = ErrB(NoError)
    /\ parsedAt = 0
    /\ lastRT = RefreshTokenOf(token)
    /\ original = NoBearer
    /\ serialized = <<>>
    /\ deserialized = ErrB(NoError)
    /\ op = "received"

(* History of the refresh token after a parse of j with result r. *)
NextRT(j, r) ==
    IF r.ok /\ r.value.lifetime.kind = "Expiring" /\ j.fields["refresh_token"].type = "string"
    THEN Some(j.fields["refresh_token"].s)
    ELSE lastRT

Parsed(r, name) ==
    /\ result' = r
    /\ token' = IF r.ok THEN Some(r.value) ELSE token
    /\ parsedAt' = IF r.ok THEN now ELSE parsedAt
    /\ lastRT' = NextRT(json, r)
    /\ op' = name
    /\ UNCHANGED <<now, L, json, original, serialized, deserialized>>

(* Bearer::<L>::from_response(&json) *)
FromResponse ==
    /\ op = "received"
    /\ prev' = NoToken
    /\ Parsed(from_response(L, json, now), "from_response")

(* Bearer::<L>::from_response_inherit(&json, &token) *)
FromResponseInherit ==
    /\ op = "received"
    /\ token.some
    /\ prev' = token
    /\ Parsed(from_response_inherit(L, json, token.v, now), "from_response_inherit")

Next == FromResponse \/ FromResponseInherit

Spec == Init /\ [][Next]_vars

----------------------------------------------------------------------------
(* A client that authorizes once and then refreshes, while time passes. *)

InitRefresh ==
    /\ now = 0
    /\ L \in Lifetimes
    /\ json = NoResponse
    /\ token = NoToken
    /\ prev = NoToken
    /\ result = ErrB(NoError)
    /\ parsedAt = 0
    /\ lastRT = None
    /\ original = NoBearer
    /\ serialized = <<>>
    /\ deserialized = ErrB(NoError)
    /\ op = "idle"

(* The token endpoint answers with j. *)
Receive(j) ==
    /\ op # "received"
    /\ json' = j
    /\ op' = "received"
    /\ UNCHANGED <<now, L, prev, result, token, parsedAt, lastRT,
                   original, serialized, deserialized>>

Authorize == token = NoToken /\ FromResponse

Refresh == FromResponseInherit

Tick ==
    /\ now < MaxTime
    /\ now' = now + 1
    /\ UNCHANGED <<L, json, prev, result, token, parsedAt, lastRT,
                   original, serialized, deserialized, op>>

NextRefresh ==
    \/ \E j \in RefreshResponses : Receive(j)
    \/ Authorize
    \/ Refresh
    \/ Tick

SpecRefresh == InitRefresh /\ [][NextRefresh]_vars

----------------------------------------------------------------------------
(* Persisting a token: serialize it, then deserialize what was written. *)

InitSerde ==
    /\ now = 0
    /\ L \in Lifetimes
    /\ json = NoResponse
    /\ token = NoToken
    /\ prev = NoToken
    /\ result = ErrB(NoError)
    /\ parsedAt = 0
    /\ lastRT = None
    /\ original \in Bearers(L)
    /\ serialized = <<>>
    /\ deserialized = ErrB(NoError)
    /\ op = "constructed"

Serialize ==
    /\ op = "constructed"
    /\ serialized' = serialize(original)
    /\ op' = "serialized"
    /\ UNCHANGED <<now, L, json, prev, result, token, parsedAt, lastRT,
                   original, deserialized>>

Deserialize ==
    /\ op = "serialized"
    /\ deserialized' = deserialize(L, serialized)
    /\ op' = "deserialized"
    /\ UNCHANGED <<now, L, json, prev, result, token, parsedAt, lastRT,
                   original, serialized>>

NextSerde == Serialize \/ Deserialize

SpecSerde == InitSerde /\ [][NextSerde]_vars

----------------------------------------------------------------------------
(* Properties.  They are stated over the response's fields, not over the   *)
(* parsing operators.                                                      *)

Field(k) == json.fields[k]
IsString(k) == Field(k).type = "string"
IsAbsent(k) == Field(k).type = "absent"
ParsedFresh == op = "from_response"
ParsedInherit == op = "from_response_inherit"
ParsedAny == ParsedFresh \/ ParsedInherit

(* token_type is a string equal to "bearer" up to ASCII case *)
TokenTypeIsBearerIgnoringCase ==
    IsString("token_type") /\ eq_ignore_ascii_case(Field("token_type").s, bearer_)

(* token_type is literally "Bearer" or "bearer" *)
TokenTypeIsBearerLiteral ==
    IsString("token_type") /\ Field("token_type").s \in {Bearer_, bearer_}

(* The fields the lifetime L reads are present with the right types. *)
LifetimeFieldsValid ==
    \/ L = "Static"
    \/ /\ Field("expires_in").type = "number"
       /\ ParsedInherit \/ IsString("refresh_token")

OptionOf(k) == IF IsString(k) THEN Some(Field(k).s) ELSE None

(* C1 (as claimed): a Static bearer response whose token_type equals "bearer" up
   to case and whose access_token is a non-empty string parses, and the token
   carries that access_token. *)
C1_AnyCaseBearerParses ==
    (/\ ParsedFresh /\ L = "Static" /\ as_object(json)
     /\ TokenTypeIsBearerIgnoringCase
     /\ IsString("access_token") /\ Field("access_token").s # Empty)
    => (result.ok /\ result.value.access_token = Field("access_token").s)

(* C2 (as claimed): a string token_type that is not "bearer" up to case makes
   every parse, fresh or inherited, Static or Expiring, fail with
   ExpectedFieldValue("token_type", "Bearer"), whatever the other fields are. *)
C2_TokenTypeErrorFirst ==
    (/\ ParsedAny /\ as_object(json)
     /\ IsString("token_type") /\ ~TokenTypeIsBearerIgnoringCase)
    => (~result.ok /\ result.err = ExpectedFieldValue("token_type", "Bearer"))

(* C2 (amended): with such a token_type the parse fails with
   ExpectedFieldValue("token_type", "Bearer") whenever the lifetime's fields
   are valid (always for Static), whatever access_token, scope and id_token
   are; when the lifetime's fields are not valid the parse fails with the
   lifetime's error on expires_in or refresh_token, which is raised first. *)
C2_TokenTypeErrorAfterLifetime ==
    (/\ ParsedAny /\ as_object(json)
     /\ IsString("token_type") /\ ~TokenTypeIsBearerIgnoringCase)
    => /\ ~result.ok
       /\ LifetimeFieldsValid
            => result.err = ExpectedFieldValue("token_type", "Bearer")
       /\ ~LifetimeFieldsValid
            => /\ result.err.kind \in {"MissingField", "WrongType"}
               /\ result.err.field \in {"expires_in", "refresh_token"}

C2_Witness ==
    /\ ParsedInherit /\ L = "Expiring"
    /\ Field("token_type") = JString(MAC_)
    /\ IsAbsent("access_token")
    /\ Field("expires_in").type = "number" /\ IsAbsent("refresh_token")
    /\ result = ErrB(ExpectedFieldValue("token_type", "Bearer"))

(* C3 (as claimed): a response object without access_token fails with
   MissingField("access_token") whatever the other fields are. *)
C3_MissingAccessTokenAlways ==
    (ParsedAny /\ as_object(json) /\ IsAbsent("access_token"))
    => (~result.ok /\ result.err = MissingField("access_token"))

(* C3 (amended): a response object without access_token fails with
   MissingField("access_token") when its token_type is "Bearer" or "bearer"
   and the lifetime's fields are valid, whatever scope and id_token are; with
   another or a missing token_type, or invalid lifetime fields, it fails with
   the error of that earlier check instead. *)
C3_MissingAccessTokenAfterEarlierChecks ==
    (ParsedAny /\ as_object(json) /\ IsAbsent("access_token"))
    => /\ ~result.ok
       /\ (TokenTypeIsBearerLiteral /\ LifetimeFieldsValid)
            => result.err = MissingField("access_token")
       /\ ~(TokenTypeIsBearerLiteral /\ LifetimeFieldsValid)
            => /\ result.err # MissingField("access_token")
               /\ result.err.field \in {"token_type", "expires_in", "refresh_token"}

C3_Witness ==
    /\ ParsedFresh /\ L = "Expiring"
    /\ Field("token_type") = JString(bearer_)
    /\ IsAbsent("access_token")
    /\ Field("scope") = JNull
    /\ result = ErrB(MissingField("access_token"))

(* C4: an inherited parse of an otherwise valid refresh response succeeds; the
   new token has the previous token's refresh_token when the response has
   none, and the response's refresh_token when it has one. *)
C4_RefreshTokenInheritedOrReplaced ==
    (/\ ParsedInherit /\ L = "Expiring" /\ as_object(json)
     /\ TokenTypeIsBearerLiteral /\ IsString("access_token")
     /\ Field("expires_in").type = "number")
    => /\ result.ok
       /\ IsAbsent("refresh_token")
            => result.value.lifetime.refresh_token = prev.v.lifetime.refresh_token
       /\ IsString("refresh_token")
            => result.value.lifetime.refresh_token = Field("refresh_token").s

C4_Witness ==
    /\ ParsedInherit /\ L = "Expiring"
    /\ IsAbsent("refresh_token")
    /\ prev.v.lifetime.refresh_token = bbbb
    /\ Field("access_token") = JString(cccc)
    /\ result.ok
    /\ result.value.lifetime.refresh_token = bbbb

(* C5 (as claimed): deserializing what serialize wrote gives back the token,
   for both lifetimes and with scope and id_token present or absent. *)
C5_SerdeRoundTrip ==
    op = "deserialized" => deserialized = Ok(original)

(* C6 (as claimed): after a parse at time t of an Expiring response with
   expires_in = N, expires_at = t + N, the token is not expired at time t, and
   it is expired at every time t' with t' - t >= N. *)
C6_NotExpiredAtParseTime ==
    (ParsedAny /\ L = "Expiring" /\ result.ok)
    => /\ result.value.lifetime.expires = parsedAt + Field("expires_in").n
       /\ now = parsedAt => ~expired(result.value.lifetime, now)
       /\ now - parsedAt >= Field("expires_in").n
            => expired(result.value.lifetime, now)

(* C6 (amended): expires_at = t + N; expired() holds exactly at the times
   t' with t' - t >= N; so right after the parse the token is not expired
   when N > 0, and is already expired when N = 0. *)
C6_ExpiredFromExpiresAt ==
    (ParsedAny /\ L = "Expiring" /\ result.ok)
    => /\ result.value.lifetime.expires = parsedAt + Field("expires_in").n
       /\ expired(result.value.lifetime, now)
            <=> (now - parsedAt >= Field("expires_in").n)
       /\ (now = parsedAt /\ Field("expires_in").n > 0)
            => ~expired(result.value.lifetime, now)
       /\ (now = parsedAt /\ Field("expires_in").n = 0)
            => expired(result.value.lifetime, now)

C6_Witness ==
    /\ ParsedInherit /\ L = "Expiring" /\ result.ok
    /\ parsedAt > 0
    /\ Field("expires_in").n > 0
    /\ now = parsedAt + Field("expires_in").n
    /\ expired(result.value.lifetime, now)

(* C7 (as claimed): a token returned by a successful parse has a non-empty
   access_token. *)
C7_AccessTokenNonEmpty ==
    (ParsedAny /\ result.ok) => result.value.access_token # Empty

(* C8 (as claimed): with valid token_type and access_token, an absent scope or
   id_token parses to None, a string to Some of it, and a value of another
   JSON type makes from_response fail with a wrong-type error on that field. *)
C8_OptionalFieldTypeChecked ==
    (/\ ParsedFresh /\ as_object(json) /\ TokenTypeIsBearerLiteral
     /\ IsString("access_token") /\ LifetimeFieldsValid)
    => \A k \in {"scope", "id_token"} :
         /\ IsAbsent(k) => (result.ok => result.value[k] = None)
         /\ IsString(k) => (result.ok => result.value[k] = Some(Field(k).s))
         /\ (~IsAbsent(k) /\ ~IsString(k))
              => (~result.ok /\ result.err.kind = "WrongType"
                  /\ result.err.field \in {"scope", "id_token"})

(* C9: a successful inherited parse takes access_token, scope and id_token
   from the response alone: scope and id_token are None when the response has
   none, even when the previous token has them. *)
C9_TokenFieldsFromResponseOnly ==
    (ParsedInherit /\ result.ok)
    => /\ IsString("access_token")
       /\ result.value.access_token = Field("access_token").s
       /\ result.value.scope = OptionOf("scope")
       /\ result.value.id_token = OptionOf("id_token")

C9_Witness ==
    /\ ParsedInherit /\ result.ok
    /\ prev.v.scope = Some(bar) /\ prev.v.id_token = Some(bar)
    /\ IsAbsent("scope") /\ IsAbsent("id_token")
    /\ result.value.scope = None /\ result.value.id_token = None
    /\ prev.v.access_token = aaaa /\ result.value.access_token = cccc

(* C10: along a chain of refreshes the held token's refresh_token is the
   refresh_token of the latest successfully parsed response that carried one. *)
C10_RefreshTokenIsLatestIssued ==
    (L = "Expiring" /\ token.some)
    => (lastRT.some /\ token.v.lifetime.refresh_token = lastRT.v)

(* A second refresh without refresh_token, after one that replaced the token. *)
C10_Witness ==
    /\ L = "Expiring" /\ ParsedInherit /\ result.ok
    /\ IsAbsent("refresh_token")
    /\ prev.v.lifetime.refresh_token = dddd
    /\ prev.v.access_token = cccc
    /\ token.v.access_token = aaaa
    /\ token.v.lifetime.refresh_token = dddd

====
